---- MODULE Spec2Model ----
(***************************************************************************)
(* Model of the gateway request pipeline of wexample-api:                  *)
(*   HttpRequestPayload.from_endpoint / from_url                           *)
(*   AbstractGateway.make_request, handle_api_response, check_status_code, *)
(*   connect, clear_error, _handle_rate_limiting, _get_header_value,       *)
(*   _extract_error_message.                                               *)
(*                                                                         *)
(* Conventions.  A Python string is a sequence of one-character strings.   *)
(* An optional value is a sequence of length 0 (None) or 1 (the value).    *)
(* A dict is a sequence of <<key, value>> pairs with distinct keys, in     *)
(* insertion order.  The diagnostic sink (self.io) and the transport       *)
(* (requests.request) are collaborators: the sink is modelled by the list  *)
(* of calls it receives, the transport by the outcome it produces.         *)
(***************************************************************************)
EXTENDS Integers, Sequences, FiniteSets, TLC

None == <<>>

Some(x) == <<x>>

Val(o) == o[1]

Max(a, b) == IF a >= b THEN a ELSE b

(***************************************************************************)
(* Strings                                                                 *)
(***************************************************************************)
Whitespace == {" "}

\* str.lower() on one character
LowerChar(c) ==
    CASE c = "A" -> "a"
      [] c = "B" -> "b"
      [] c = "C" -> "c"
      [] c = "D" -> "d"
      [] c = "E" -> "e"
      [] c = "F" -> "f"
      [] c = "G" -> "g"
      [] c = "H" -> "h"
      [] c = "I" -> "i"
      [] c = "J" -> "j"
      [] c = "K" -> "k"
      [] c = "L" -> "l"
      [] c = "M" -> "m"
      [] c = "N" -> "n"
      [] c = "O" -> "o"
      [] c = "P" -> "p"
      [] c = "Q" -> "q"
      [] c = "R" -> "r"
      [] c = "S" -> "s"
      [] c = "T" -> "t"
      [] c = "U" -> "u"
      [] c = "V" -> "v"
      [] c = "W" -> "w"
      [] c = "X" -> "x"
      [] c = "Y" -> "y"
      [] c = "Z" -> "z"
      [] OTHER -> c

\* str.lower()
RECURSIVE StrLower(_)
StrLower(str) ==
    IF str = <<>> THEN <<>>
    ELSE <<LowerChar(Head(str))>> \o StrLower(Tail(str))

\* str.lstrip(chars)
RECURSIVE LStrip(_, _)
LStrip(str, chars) ==
    IF str # <<>> /\ Head(str) \in chars THEN LStrip(Tail(str), chars) ELSE str

\* str.rstrip(chars)
RECURSIVE RStrip(_, _)
RStrip(str, chars) ==
    IF str # <<>> /\ str[Len(str)] \in chars
    THEN RStrip(SubSeq(str, 1, Len(str) - 1), chars)
    ELSE str

\* str.strip()
StrStrip(str) == RStrip(LStrip(str, Whitespace), Whitespace)

\* str.split(sep, 1)[0]: the text before the first occurrence of sep
RECURSIVE SplitFirst(_, _)
SplitFirst(str, sep) ==
    IF str = <<>> \/ Head(str) = sep THEN <<>>
    ELSE <<Head(str)>> \o SplitFirst(Tail(str), sep)

(***************************************************************************)
(* Enum values of wexample_helpers_api.enums.http                          *)
(***************************************************************************)
CONTENT_TYPE == <<"C", "o", "n", "t", "e", "n", "t", "-", "T", "y", "p", "e">>

FORM_URLENCODED == <<"a", "p", "p", "l", "i", "c", "a", "t", "i", "o", "n", "/", "x", "-", "w", "w", "w", "-", "f", "o", "r", "m", "-", "u", "r", "l", "e", "n", "c", "o", "d", "e", "d">>

OCTET_STREAM == <<"a", "p", "p", "l", "i", "c", "a", "t", "i", "o", "n", "/", "o", "c", "t", "e", "t", "-", "s", "t", "r", "e", "a", "m">>

MULTIPART == <<"m", "u", "l", "t", "i", "p", "a", "r", "t", "/", "f", "o", "r", "m", "-", "d", "a", "t", "a">>

(***************************************************************************)
(* Dicts                                                                   *)
(***************************************************************************)
DictHas(d, k) == \E i \in 1..Len(d) : d[i][1] = k

DictGet(d, k) == d[CHOOSE i \in 1..Len(d) : d[i][1] = k][2]

\* the entries of d1, in order, with the values d2 gives to their keys
RECURSIVE DictOverride(_, _)
DictOverride(d1, d2) ==
    IF d1 = <<>> THEN <<>>
    ELSE LET k == Head(d1)[1]
         IN  <<IF DictHas(d2, k) THEN <<k, DictGet(d2, k)>> ELSE Head(d1)>>
                 \o DictOverride(Tail(d1), d2)

\* {**d1, **d2}
DictMerge(d1, d2) ==
    LET IsNew(p) == ~DictHas(d1, p[1])
    IN  DictOverride(d1, d2) \o SelectSeq(d2, IsNew)

\* dict.pop(key, None)
DictPop(d, k) ==
    LET Other(p) == p[1] # k
    IN  SelectSeq(d, Other)

(***************************************************************************)
(* Values passed around                                                    *)
(***************************************************************************)
\* expected_status_codes: int | list[int] | None
\* kept as <<type, items>>: <<"none", <<>>>>, <<"int", <<n>>>>, <<"list", l>>
NoCodes == <<"none", <<>>>>

IntCodes(n) == <<"int", <<n>>>>

ListCodes(l) == <<"list", l>>

Tag(codes) == codes[1]

Items(codes) == codes[2]

SeqToSet(l) == {l[i] : i \in 1..Len(l)}

\* data: dict | bytes | None; a value is falsy when it is None or empty
\* kept as <<type, size>>
DictData(n) == Some(<<"dict", n>>)

BytesData(n) == Some(<<"bytes", n>>)

DataSize(d) == d[2]

Truthy(o) == o # None /\ DataSize(Val(o)) > 0

\* files: dict | list | None, kept as the sequence of its entries
FilesTruthy(files) == files # None /\ Val(files) # <<>>

\* a response body, kept as <<json, message, error, text>>: what json()
\* gives ("dict", "other" value, or "invalid": it raises), the message and
\* error entries of the dict when present, and response.text
Body(json, message, error, text) == <<json, message, error, text>>

BodyJson(body) == body[1]

BodyMessage(body) == body[2]

BodyError(body) == body[3]

BodyText(body) == body[4]

\* a response of the transport, kept as <<status_code, body>>
Response(status_code, body) == <<status_code, body>>

StatusCode(response) == response[1]

BodyOf(response) == response[2]

\* the text of an error message, by where it was taken from
Msg(src, status, text) == [text |-> text,
                           src |-> src,
                           status |-> status]

\* GatewayError(message), with the kind of failure that produced it
GatewayError(cause, msg) == [cause |-> cause, msg |-> msg]

\* one call received by the diagnostic sink (self.io)
IoCall(kind, fatal) == [kind |-> kind, fatal |-> fatal]

(***************************************************************************)
(* HttpRequestPayload                                                      *)
(***************************************************************************)
HttpRequestPayload(url, method, data, headers, expected_status_codes) ==
    [url |-> url, method |-> method, data |-> data, headers |-> headers,
     expected_status_codes |-> expected_status_codes]

JoinUrl_no_lstrip(base_url, endpoint) ==
    IF base_url # None /\ Val(base_url) # <<>>
    THEN RStrip(Val(base_url), {"/"}) \o <<"/">> \o endpoint
    ELSE endpoint

\* url = f"{base_url.rstrip('/')}/{endpoint.lstrip('/')}" if base_url else endpoint
JoinUrl(base_url, endpoint) ==
    IF base_url # None /\ Val(base_url) # <<>>
    THEN RStrip(Val(base_url), {"/"}) \o <<"/">> \o LStrip(endpoint, {"/"})
    ELSE endpoint

NormalizeCodes_identity(expected_status_codes) == expected_status_codes

\* if isinstance(expected_status_codes, int): expected_status_codes = [expected_status_codes]
NormalizeCodes(expected_status_codes) ==
    IF Tag(expected_status_codes) = "int"
    THEN ListCodes(Items(expected_status_codes))
    ELSE expected_status_codes

from_endpoint(base_url, endpoint, method, data, headers, expected_status_codes) ==
    HttpRequestPayload(JoinUrl(base_url, endpoint), method, data, headers,
                       NormalizeCodes(expected_status_codes))

from_url(url) == HttpRequestPayload(url, "GET", None, None, NoCodes)

(***************************************************************************)
(* AbstractGateway: helpers                                                *)
(***************************************************************************)
\* raw.split(";", 1)[0].strip().lower()
NormalizeHeaderValue(raw) == StrLower(StrStrip(SplitFirst(raw, ";")))

HeaderKeyMatches_exact(k, name) == k = name

\* k.lower() == name.value.lower()
HeaderKeyMatches(k, name) ==
    /\ Len(k) = Len(name)
    /\ \A i \in 1..Len(k) : LowerChar(k[i]) = LowerChar(name[i])

_get_header_value(headers, name) ==
    IF headers = None \/ Val(headers) = <<>> THEN None
    ELSE LET d == Val(headers)
             hits == {i \in 1..Len(d) : HeaderKeyMatches(d[i][1], name)}
         IN  IF hits = {} THEN None
             ELSE LET raw == d[CHOOSE i \in hits : \A j \in hits : i <= j][2]
                      norm == NormalizeHeaderValue(raw)
                  IN  IF norm = <<>> THEN None ELSE Some(norm)

_extract_error_message_error_first(response) ==
    LET http == Msg("http", StatusCode(response), <<>>)
        body == BodyOf(response)
    IN  CASE BodyJson(body) = "dict" ->
               IF BodyError(body) # None THEN Msg("error", 0, Val(BodyError(body)))
               ELSE IF BodyMessage(body) # None THEN Msg("message", 0, Val(BodyMessage(body)))
               ELSE http
          [] BodyJson(body) = "other" -> http
          [] OTHER -> IF BodyText(body) # <<>> THEN Msg("text", 0, BodyText(body)) ELSE http

\* message = data.get("message", data.get("error", f"HTTP {status}")) for a
\* dict; response.text, when not empty, if json() raises; else f"HTTP {status}"
_extract_error_message(response) ==
    LET http == Msg("http", StatusCode(response), <<>>)
        body == BodyOf(response)
    IN  CASE BodyJson(body) = "dict" ->
               IF BodyMessage(body) # None THEN Msg("message", 0, Val(BodyMessage(body)))
               ELSE IF BodyError(body) # None THEN Msg("error", 0, Val(BodyError(body)))
               ELSE http
          [] BodyJson(body) = "other" -> http
          [] OTHER -> IF BodyText(body) # <<>> THEN Msg("text", 0, BodyText(body)) ELSE http

MustSleep_never(elapsed, rate_limit_delay) == FALSE

\* elapsed < self.rate_limit_delay
MustSleep(elapsed, rate_limit_delay) == elapsed < rate_limit_delay

SleepDuration_full(elapsed, rate_limit_delay) == rate_limit_delay

\* time.sleep(self.rate_limit_delay - elapsed)
SleepDuration(elapsed, rate_limit_delay) == rate_limit_delay - elapsed

\* t is the first time.time(); lag is the time that passes, beyond the
\* requested sleep, until the second time.time()
_handle_rate_limiting(last_request_time, rate_limit_delay, t, lag) ==
    LET elapsed == IF last_request_time = None THEN 0 ELSE t - Val(last_request_time)
        slept == last_request_time # None /\ MustSleep(elapsed, rate_limit_delay)
        sleep_arg == IF slept THEN SleepDuration(elapsed, rate_limit_delay) ELSE 0
    IN  [elapsed |-> elapsed,
         slept |-> slept,
         sleep_arg |-> sleep_arg,
         checked_at |-> t,
         stamp |-> t + sleep_arg + lag]

(***************************************************************************)
(* AbstractGateway.handle_api_response                                     *)
(***************************************************************************)
\* is_quiet = self.quiet if quiet is None else quiet
IsQuiet(self_quiet, quiet) == IF quiet = None THEN self_quiet ELSE Val(quiet)

\* response.status_code in request_context.expected_status_codes
\* (evaluated only when the payload carries a list)
StatusExpectedByPayload(status_code, request_context) ==
    status_code \in SeqToSet(Items(request_context.expected_status_codes))

Returned(last_exception, io, ret) ==
    [last_exception |-> last_exception,
     io |-> io,
     ret |-> ret,
     outcome |-> "returned",
     raised |-> "none"]

Raised(last_exception, io, error) ==
    [last_exception |-> last_exception,
     io |-> io,
     ret |-> None,
     outcome |-> "raised",
     raised |-> error]

\* what handle_api_response returns for a response it obtained and reported
MismatchReturn_null(response) == None

MismatchReturn(response) == Some(response)

handle_api_response(self_quiet, response, request_context, exception, fatal_on_error, quiet) ==
    LET is_quiet == IsQuiet(self_quiet, quiet)
        properties == IF is_quiet THEN <<>> ELSE <<IoCall("properties", FALSE)>>
        debug == IF is_quiet THEN <<>> ELSE <<IoCall("debug", FALSE)>>
        error == <<IoCall("error", fatal_on_error)>>
    IN  IF response = None
        THEN Returned(exception,
                      properties \o (IF exception # None THEN error ELSE <<>>),
                      None)
        ELSE IF Tag(request_context.expected_status_codes) = "none"
        THEN \* "in None": TypeError, after last_exception and the debug line
             Raised(exception, debug, "TypeError")
        ELSE IF StatusExpectedByPayload(StatusCode(Val(response)), request_context)
        THEN Returned(exception, debug, response)
        ELSE Returned(exception, debug \o properties \o error,
                      MismatchReturn(Val(response)))

(***************************************************************************)
(* AbstractGateway.make_request                                            *)
(***************************************************************************)
DefaultStatus == 200

ExpectedSet_default_only(expected_status_codes) == {DefaultStatus}

\* {expected_status_codes} if isinstance(expected_status_codes, int)
\* else set(expected_status_codes or {200})
ExpectedSet(expected_status_codes) ==
    IF Tag(expected_status_codes) = "int" THEN {Items(expected_status_codes)[1]}
    ELSE IF Items(expected_status_codes) # <<>> THEN SeqToSet(Items(expected_status_codes))
    ELSE {DefaultStatus}

\* payload.headers.pop(Header.CONTENT_TYPE.value, None)
StripContentType(headers) == DictPop(headers, CONTENT_TYPE)

\* the headers handed to the transport
DispatchHeaders(headers, files) ==
    IF FilesTruthy(files) THEN StripContentType(headers) ELSE headers

\* content_type in (FORM_URLENCODED, OCTET_STREAM)
IsRawContentType(content_type) ==
    content_type \in {Some(FORM_URLENCODED), Some(OCTET_STREAM)}

\* which keyword of requests.request carries the body
BodyKind(files, content_type) ==
    IF FilesTruthy(files) THEN "multipart"
    ELSE IF IsRawContentType(content_type) THEN "data"
    ELSE "json"

\* timeout or self.timeout
EffectiveTimeout(timeout, self_timeout) ==
    IF timeout # None /\ Val(timeout) # 0 THEN Val(timeout) ELSE self_timeout

BuildRequestKwargs(payload, a, self_timeout) ==
    LET looked_up == _get_header_value(payload.headers, CONTENT_TYPE)
        content_type == IF FilesTruthy(a.files) THEN Some(MULTIPART) ELSE looked_up
        kind == BodyKind(a.files, content_type)
    IN  [files |-> IF kind = "multipart" THEN a.files ELSE None,
         body |-> IF kind = "multipart" THEN (IF Truthy(a.data) THEN a.data ELSE DictData(0)) ELSE a.data,
         kind |-> kind,
         url |-> payload.url,
         method |-> payload.method,
         headers |-> DispatchHeaders(Val(payload.headers), a.files),
         content_type |-> content_type,
         timeout |-> EffectiveTimeout(a.timeout, self_timeout)]

\* quiet: bool = False
QuietParam(quiet) == IF quiet = None THEN FALSE ELSE Val(quiet)

\* raise gateway_error / raise exception: leaves make_request before
\* handle_api_response runs
Propagate_reporting(self, error) ==
    Raised(Some(error), <<IoCall("error", FALSE)>>, "GatewayError")

Propagate(self, error) == Raised(self.last_exception, <<>>, "GatewayError")

\* the part of make_request after the transport answered or raised;
\* transport is None when requests.request raised a RequestException
RouteResult(self, a, payload, transport) ==
    LET quiet == Some(QuietParam(a.quiet))
    IN  IF transport = None
        THEN LET gateway_error ==
                     GatewayError("transport", Msg("request_failed", 0, <<>>))
             IN  IF a.raise_exceptions
                 THEN Propagate(self, gateway_error)
                 ELSE handle_api_response(self.quiet, None, payload,
                                          Some(gateway_error),
                                          a.fatal_if_unexpected, quiet)
        ELSE LET response == Val(transport)
                 expected == ExpectedSet(a.expected_status_codes)
                 mismatch == StatusCode(response) \notin expected
                 exception ==
                     IF mismatch
                     THEN Some(GatewayError("status", _extract_error_message(response)))
                     ELSE None
             IN  IF mismatch /\ a.raise_exceptions
                 THEN Propagate(self, Val(exception))
                 ELSE handle_api_response(self.quiet, transport, payload,
                                          exception, a.fatal_if_unexpected, quiet)

(***************************************************************************)
(* State                                                                   *)
(***************************************************************************)
VARIABLES
    base_url,           \* AbstractGateway.base_url
    connected,          \* AbstractGateway.connected
    default_headers,    \* AbstractGateway.default_headers
    last_exception,     \* AbstractGateway.last_exception
    last_request_time,  \* AbstractGateway.last_request_time
    quiet,              \* AbstractGateway.quiet
    rate_limit_delay,   \* AbstractGateway.rate_limit_delay
    timeout,            \* AbstractGateway.timeout
    now,                \* the clock read by time.time()
    io,                 \* the calls the diagnostic sink received in the last operation
    call                \* the last operation: its arguments and its result

vars == <<base_url, connected, default_headers, last_exception,
          last_request_time, quiet, rate_limit_delay, timeout, now, io, call>>

config == <<base_url, default_headers, quiet, rate_limit_delay, timeout>>

\* bounds of the model
MaxTime == 4

MaxLag == 1

MaxDuration == 1

DefaultTimeout == 30

DefaultRateLimitDelay == 1

Args(endpoint, method, data, headers, files, expected_status_codes, fatal_if_unexpected, q, tmo, raise_exceptions) ==
    [files |-> files,
     method |-> method,
     data |-> data,
     headers |-> headers,
     expected_status_codes |-> expected_status_codes,
     endpoint |-> endpoint,
     quiet |-> q,
     timeout |-> tmo,
     raise_exceptions |-> raise_exceptions,
     fatal_if_unexpected |-> fatal_if_unexpected]

\* the gateway after construction
InitGateway ==
    /\ connected = FALSE
    /\ last_exception = None
    /\ last_request_time = None
    /\ timeout = DefaultTimeout
    /\ now = 0
    /\ io = <<>>
    /\ call = [op |-> "init"]

MergedHeaders_defaults_win(defaults, headers) ==
    DictMerge(IF headers = None THEN <<>> ELSE Val(headers), defaults)

\* headers={**self.default_headers, **(headers or {})}
MergedHeaders(defaults, headers) ==
    DictMerge(defaults, IF headers = None THEN <<>> ELSE Val(headers))

EnsureConnected_skip(was_connected) == was_connected

\* if not self.connected: self.connect()
EnsureConnected(was_connected) == IF ~was_connected THEN TRUE ELSE was_connected

DefaultsAfterRequest_aliased(defaults, built, sent) ==
    IF built = defaults THEN sent ELSE defaults

\* self.default_headers after a request: {**self.default_headers, ...} builds
\* a new dict, and the pop of Content-Type acts on that dict
DefaultsAfterRequest(defaults, built, sent) == defaults

\* make_request(a) issued at time now; the transport answers (or raises,
\* transport = None) after dur
make_request(op, a, transport, lag, dur) ==
    \E payload \in {from_endpoint(base_url, a.endpoint, a.method, a.data,
                                 Some(MergedHeaders(default_headers, a.headers)),
                                 a.expected_status_codes)} :
    \E rl \in {_handle_rate_limiting(last_request_time, rate_limit_delay, now, lag)} :
    \E kw \in {BuildRequestKwargs(payload, a, timeout)} :
    \E sent \in {[payload EXCEPT !.headers = Some(kw.headers)]} :
    \E r \in {RouteResult([quiet |-> quiet, last_exception |-> last_exception],
                          a, sent, transport)} :
    LET log == IF payload.data # None THEN <<IoCall("log", FALSE)>> ELSE <<>>
    IN  /\ rl.stamp + dur <= MaxTime
        /\ connected' = EnsureConnected(connected)
        /\ default_headers' = DefaultsAfterRequest(default_headers,
                                                   Val(payload.headers), kw.headers)
        /\ last_request_time' = Some(rl.stamp)
        /\ now' = rl.stamp + dur
        /\ last_exception' = r.last_exception
        /\ io' = log \o r.io
        /\ call' = [a |-> a,
                    ret |-> r.ret,
                    outcome |-> r.outcome,
                    raised |-> r.raised,
                    payload |-> sent,
                    transport |-> transport,
                    op |-> op,
                    was_connected |-> connected,
                    built |-> payload,
                    rl |-> rl,
                    request_kwargs |-> kw,
                    pre_exception |-> last_exception,
                    pre_request_time |-> last_request_time,
                    pre_defaults |-> default_headers,
                    check |-> IF op = "check_status_code" THEN Some(r.ret # None) ELSE None]
        /\ UNCHANGED <<base_url, quiet, rate_limit_delay, timeout>>

\* check_status_code(expected_status_codes):
\* make_request(endpoint="", expected_status_codes=..., quiet=True) is not None
check_status_code(expected_status_codes, transport, lag, dur) ==
    make_request("check_status_code",
                 Args(<<>>, "GET", None, None, None, expected_status_codes,
                      FALSE, Some(TRUE), None, FALSE),
                 transport, lag, dur)

connect ==
    /\ connected' = TRUE
    /\ io' = <<>>
    /\ call' = [op |-> "connect"]
    /\ UNCHANGED <<config, last_exception, last_request_time, now>>

clear_error ==
    /\ last_exception' = None
    /\ io' = <<>>
    /\ call' = [op |-> "clear_error", pre_exception |-> last_exception]
    /\ UNCHANGED <<config, connected, last_request_time, now>>

\* time passes between two operations
Tick ==
    /\ now < MaxTime
    /\ now' = now + 1
    /\ UNCHANGED <<config, connected, last_exception, last_request_time, io, call>>

(***************************************************************************)
(* Inputs                                                                  *)
(***************************************************************************)
JSON == <<"a", "p", "p", "l", "i", "c", "a", "t", "i", "o", "n", "/", "j", "s", "o", "n">>

K_ct_lower == <<"c", "o", "n", "t", "e", "n", "t", "-", "t", "y", "p", "e">>

K_XA == <<"X", "-", "A">>

K_XB == <<"X", "-", "B">>

V_form_params == <<"A", "p", "p", "l", "i", "c", "a", "t", "i", "o", "n", "/", "X", "-", "W", "W", "W", "-", "F", "o", "r", "m", "-", "U", "r", "l", "e", "n", "c", "o", "d", "e", "d", ";", " ", "c", "h", "a", "r", "s", "e", "t", "=", "u", "t", "f", "-", "8">>

V_octet_padded == <<" ", "a", "p", "p", "l", "i", "c", "a", "t", "i", "o", "n", "/", "o", "c", "t", "e", "t", "-", "s", "t", "r", "e", "a", "m", " ">>

V_semi == <<";">>

V_text_then_octet == <<"t", "e", "x", "t", "/", "p", "l", "a", "i", "n", ";", "a", "p", "p", "l", "i", "c", "a", "t", "i", "o", "n", "/", "o", "c", "t", "e", "t", "-", "s", "t", "r", "e", "a", "m">>

V_1 == <<"1">>

V_2 == <<"2">>

U_base == <<"h", "/">>

E_posts == <<"/", "p">>

T_bad_id == <<"b", "a", "d", " ", "i", "d">>

EmptyBody == Body("invalid", None, None, <<>>)

ErrorBody == Body("dict", None, Some(T_bad_id), <<>>)

\* what the transport can do: raise (None) or answer
Transports ==
    {None, Some(Response(200, EmptyBody)), Some(Response(404, ErrorBody))}

ExpectedInputs ==
    {NoCodes, IntCodes(200), ListCodes(<<>>), ListCodes(<<201, 404>>)}

QuietInputs == {None, Some(TRUE)}

(***************************************************************************)
(* Spec: requests of every outcome on one gateway                          *)
(***************************************************************************)
Init ==
    /\ InitGateway
    /\ base_url = Some(U_base)
    /\ default_headers = << <<K_XA, V_1>> >>
    /\ quiet \in BOOLEAN
    /\ rate_limit_delay = DefaultRateLimitDelay

MakeRequest ==
    \E expected \in ExpectedInputs, fatal \in BOOLEAN, q \in QuietInputs,
       raise \in BOOLEAN, transport \in Transports, dur \in 1..MaxDuration :
        make_request("make_request",
                     Args(E_posts, "GET", None, None, None, expected, fatal, q,
                          None, raise),
                     transport, 0, dur)

CheckStatusCode ==
    \E expected \in ExpectedInputs \ {NoCodes}, transport \in Transports,
       dur \in 1..MaxDuration :
        check_status_code(expected, transport, 0, dur)

Connect == connect

ClearError == clear_error

Next == MakeRequest \/ CheckStatusCode \/ Connect \/ ClearError \/ Tick

Spec == Init /\ [][Next]_vars

(***************************************************************************)
(* Properties of requests                                                  *)
(***************************************************************************)
\* the last operation went through make_request
Requested == call.op \in {"make_request", "check_status_code"}

has_error == last_exception # None

ReceivedResponse == Requested /\ call.transport # None

TransportFailed == Requested /\ call.transport = None

Status == StatusCode(Val(call.transport))

\* the codes the caller wrote in expected_status_codes
CallerCodes == SeqToSet(Items(call.a.expected_status_codes))

ExplicitCodes ==
    \/ Tag(call.a.expected_status_codes) = "int"
    \/ Tag(call.a.expected_status_codes) = "list" /\ Items(call.a.expected_status_codes) # <<>>

Reports(kinds) == {i \in 1..Len(io) : io[i].kind \in kinds}

C3_DefaultCodes ==
    (ReceivedResponse /\ ~call.a.raise_exceptions
        /\ Tag(call.a.expected_status_codes) = "none") =>
        /\ call.outcome = "returned"
        /\ call.ret = call.transport
        /\ has_error <=> Status # DefaultStatus

\* the request ended in a transport failure or an unexpected status
EndedInError ==
    \/ TransportFailed
    \/ ReceivedResponse /\ Status \notin
           (IF Items(call.a.expected_status_codes) = <<>>
            THEN {DefaultStatus} ELSE CallerCodes)

\* C6: a request with fatal_if_unexpected=True that ends in a transport
\* failure or an unexpected status reports the error to the sink with
\* fatal=true, whatever raise_exceptions is.
C6_FatalReported ==
    (Requested /\ call.a.fatal_if_unexpected /\ EndedInError) =>
        \E i \in Reports({"error"}) : io[i].fatal

\* C7: check_status_code returns true exactly when the probe obtained a
\* response whose status is in the expected codes.
C7_CheckStatusCode ==
    (call.op = "check_status_code" /\ ExplicitCodes) =>
        (Val(call.check) <=> (call.transport # None /\ Status \in CallerCodes))

\* C8: with raise_exceptions=True a transport failure or an unexpected status
\* propagates a gateway error: nothing is returned, nothing is reported to
\* the sink and last_exception keeps its value.
C8_Propagation ==
    (Requested /\ call.a.raise_exceptions /\ EndedInError) =>
        /\ call.outcome = "raised" /\ call.raised = "GatewayError"
        /\ call.ret = None
        /\ Reports({"error", "properties", "debug"}) = {}
        /\ last_exception = call.pre_exception

C8_Witness ==
    /\ ReceivedResponse /\ call.a.raise_exceptions /\ EndedInError
    /\ call.pre_exception # None
    /\ (Val(call.pre_exception)).cause = "transport"
    /\ call.outcome = "raised"
    /\ last_exception = call.pre_exception

(***************************************************************************)
(* SpecTime: the pacing of consecutive requests                            *)
(***************************************************************************)
RateLimitDelays == {0, 2, 3}

InitTime ==
    /\ InitGateway
    /\ base_url = Some(U_base)
    /\ default_headers = <<>>
    /\ quiet = FALSE
    /\ rate_limit_delay \in RateLimitDelays

\* a request ending in success, status mismatch, transport failure or a
\* propagated error
TimedRequest ==
    \E transport \in Transports, raise \in BOOLEAN,
       lag \in 0..MaxLag, dur \in 0..MaxDuration :
        make_request("make_request",
                     Args(E_posts, "GET", None, None, None, IntCodes(200),
                          FALSE, None, None, raise),
                     transport, lag, dur)

NextTime == TimedRequest \/ Tick

SpecTime == InitTime /\ [][NextTime]_vars

\* time between the previous stamp and the first time.time() of this request
Elapsed == call.rl.checked_at - Val(call.pre_request_time)

\* C4: the stamps of two consecutive requests differ by at least
\* rate_limit_delay, whatever the outcome of the requests.
C4_MinSpacing ==
    (Requested /\ call.pre_request_time # None) =>
        /\ last_request_time = Some(call.rl.stamp)
        /\ Val(last_request_time) - Val(call.pre_request_time) >= rate_limit_delay

\* a request that came too early, had to sleep, and ended in a propagated error
C4_Witness ==
    /\ Requested /\ call.pre_request_time # None
    /\ Elapsed < rate_limit_delay
    /\ call.outcome = "raised"
    /\ Val(last_request_time) - Val(call.pre_request_time) = rate_limit_delay

\* C5: the request sleeps max(0, rate_limit_delay - elapsed) and not at all
\* when it is the first one or comes rate_limit_delay or more after the
\* previous stamp; last_request_time is stamped after the sleep and before
\* the dispatch.
C5_ExactSleep ==
    Requested =>
        /\ call.rl.slept <=>
               (call.pre_request_time # None /\ Elapsed < rate_limit_delay)
        /\ call.rl.sleep_arg =
               IF call.pre_request_time = None THEN 0
               ELSE Max(0, rate_limit_delay - Elapsed)
        /\ call.rl.stamp >= call.rl.checked_at + call.rl.sleep_arg
        /\ last_request_time = Some(call.rl.stamp)
        /\ now >= call.rl.stamp

\* a request that sleeps for part of the delay only
C5_Witness ==
    /\ Requested /\ call.pre_request_time # None
    /\ Elapsed > 0 /\ Elapsed < rate_limit_delay
    /\ call.rl.slept /\ call.rl.sleep_arg = rate_limit_delay - Elapsed

(***************************************************************************)
(* SpecEnc: headers and body encoding                                      *)
(***************************************************************************)
K_CT_UPPER == <<"C", "O", "N", "T", "E", "N", "T", "-", "T", "Y", "P", "E">>

DefaultHeaderInputs ==
    { <<>>,
      << <<K_XA, V_1>> >>,
      << <<CONTENT_TYPE, FORM_URLENCODED>> >>,
      << <<K_ct_lower, V_octet_padded>>, <<K_XA, V_1>> >> }

HeaderInputs ==
    { None,
      Some(<<>>),
      Some(<< <<CONTENT_TYPE, JSON>> >>),
      Some(<< <<K_ct_lower, V_form_params>> >>),
      Some(<< <<K_CT_UPPER, OCTET_STREAM>>, <<K_XB, V_2>> >>),
      Some(<< <<CONTENT_TYPE, V_semi>> >>),
      Some(<< <<CONTENT_TYPE, V_text_then_octet>> >>),
      Some(<< <<K_XA, V_2>>, <<CONTENT_TYPE, MULTIPART>> >>) }

FileInputs == {None, Some(<<>>), Some(<<"f">>)}

DataInputs == {None, DictData(0), DictData(1), BytesData(1)}

InitEnc ==
    /\ InitGateway
    /\ base_url = Some(U_base)
    /\ default_headers \in DefaultHeaderInputs
    /\ quiet = TRUE
    /\ rate_limit_delay = 0

EncodedRequest ==
    \E headers \in HeaderInputs, files \in FileInputs, data \in DataInputs :
        make_request("make_request",
                     Args(E_posts, "POST", data, headers, files, IntCodes(200),
                          FALSE, None, None, FALSE),
                     Some(Response(200, EmptyBody)), 0, 0)

NextEnc == EncodedRequest

SpecEnc == InitEnc /\ [][NextEnc]_vars

\* the headers handed to the transport
SentHeaders == call.request_kwargs.headers

\* positions of the Content-Type header, whatever the case of its key
ContentTypeAt(d) == {i \in 1..Len(d) : StrLower(d[i][1]) = K_ct_lower}

\* C9: a request with files is dispatched as multipart, data as form fields
\* beside the files, and carries no Content-Type header, whatever the case
\* of the key and whatever its value.
C9_FilesForceMultipart ==
    (Requested /\ FilesTruthy(call.a.files)) =>
        /\ call.request_kwargs.kind = "multipart"
        /\ call.request_kwargs.files = call.a.files
        /\ ContentTypeAt(SentHeaders) = {}

\* the headers the payload was built with
BuiltHeaders == MergedHeaders(default_headers, call.a.headers)

\* the first Content-Type value of d: the text before the first ";",
\* trimmed and lower-cased
EffectiveContentType(d) ==
    LET first == CHOOSE i \in ContentTypeAt(d) : \A j \in ContentTypeAt(d) : i <= j
    IN  StrLower(StrStrip(SplitFirst(d[first][2], ";")))

\* C10: without files the body goes as raw/form data iff the normalized
\* Content-Type is form-urlencoded or octet-stream, and as JSON otherwise,
\* also when the header is absent or normalizes to the empty string.
C10_BodyEncoding ==
    (Requested /\ ~FilesTruthy(call.a.files)) =>
        LET raw == /\ ContentTypeAt(BuiltHeaders) # {}
                   /\ EffectiveContentType(BuiltHeaders) \in
                          {FORM_URLENCODED, OCTET_STREAM}
        IN  /\ raw <=> call.request_kwargs.kind = "data"
            /\ ~raw <=> call.request_kwargs.kind = "json"
            /\ call.request_kwargs.body = call.a.data
            /\ SentHeaders = BuiltHeaders

\* a lower-case key with parameters and upper-case letters in the value
C10_Witness ==
    /\ Requested /\ call.a.files = None
    /\ default_headers = <<>>
    /\ call.a.headers = Some(<< <<K_ct_lower, V_form_params>> >>)
    /\ call.request_kwargs.kind = "data"

(***************************************************************************)
(* Quiet mode                                                              *)
(***************************************************************************)
Verbose == Reports({"properties", "debug"})

\* C11: with quiet=True passed to make_request no properties dump and no
\* debug line is emitted, and every transport failure and every unexpected
\* status handled with raise_exceptions=False is still reported to the sink,
\* with fatal=true when fatal_if_unexpected is set.
C11_QuietStillReports ==
    (Requested /\ call.a.quiet = Some(TRUE)) =>
        /\ Verbose = {}
        /\ (~call.a.raise_exceptions /\ EndedInError) =>
               \E i \in Reports({"error"}) : io[i].fatal = call.a.fatal_if_unexpected

\* C12: on a gateway constructed with quiet=True, a make_request call that
\* does not pass quiet emits no properties dump and no debug line.
C12_GatewayQuiet ==
    (call.op = "make_request" /\ quiet /\ call.a.quiet = None) => Verbose = {}

(***************************************************************************)
(* Lazy connection                                                         *)
(***************************************************************************)
\* C18: every request is dispatched on a connected gateway (a gateway that
\* is not connected is connected by the request itself), and connected never
\* goes back from true to false under make_request, check_status_code,
\* connect and clear_error.
C18_LazyConnect ==
    /\ [](Requested => connected)
    /\ [][connected => connected']_vars

C18_Witness == Requested /\ ~call.was_connected /\ connected

(***************************************************************************)
(* Agreement of the two status decisions                                   *)
(***************************************************************************)
\* C19: for every make_request with raise_exceptions=False that returns, an
\* error is reported to the sink exactly when last_exception is set
\* afterwards, for every form of expected_status_codes.
C19_DecisionsAgree ==
    (call.op = "make_request" /\ ~call.a.raise_exceptions /\ call.outcome = "returned") =>
        (Reports({"error"}) # {} <=> has_error)

(***************************************************************************)
(* Payload construction: specification SpecPayload                         *)
(***************************************************************************)
BaseUrlInputs ==
    {None, Some(<<>>), Some(<<"h">>), Some(U_base), Some(<<"h", "/", "/">>),
     Some(<<"h", "/", "a">>), Some(<<"/">>)}

EndpointInputs ==
    {<<>>, <<"p">>, E_posts, <<"/", "/", "p">>, <<"p", "/", "q">>, <<"p", "/">>, <<"/">>}

\* HttpRequestPayload.from_endpoint(base_url, endpoint, expected_status_codes=...)
FromEndpoint ==
    \E b \in BaseUrlInputs, e \in EndpointInputs, expected \in ExpectedInputs :
        /\ call' = [expected_status_codes |-> expected,
                    endpoint |-> e,
                    op |-> "from_endpoint",
                    built |-> from_endpoint(b, e, "GET", None, None, expected),
                    base |-> b]
        /\ io' = <<>>
        /\ UNCHANGED <<config, connected, last_exception, last_request_time, now>>

\* HttpRequestPayload.from_url(url)
FromUrl ==
    \E u \in EndpointInputs \cup {U_base \o <<"p">>} :
        /\ call' = [url |-> u,
                    op |-> "from_url",
                    built |-> from_url(u)]
        /\ io' = <<>>
        /\ UNCHANGED <<config, connected, last_exception, last_request_time, now>>

InitPayload ==
    /\ InitGateway
    /\ base_url \in BaseUrlInputs
    /\ default_headers = << <<K_XA, V_1>> >>
    /\ quiet = TRUE
    /\ rate_limit_delay = 0

PayloadRequest ==
    \E e \in EndpointInputs :
        make_request("make_request",
                     Args(e, "GET", None, None, None, IntCodes(200),
                          FALSE, Some(TRUE), None, FALSE),
                     Some(Response(200, EmptyBody)), 0, 0)

PayloadProbe ==
    check_status_code(IntCodes(200), Some(Response(200, EmptyBody)), 0, 0)

NextPayload == FromEndpoint \/ FromUrl \/ PayloadRequest \/ PayloadProbe

SpecPayload == InitPayload /\ [][NextPayload]_vars

Built == call.op \in {"from_endpoint", "from_url"}

\* C14: every payload produced by from_endpoint or from_url, and the one
\* built by make_request (check_status_code's probe included), has a
\* non-empty url, and no step of make_request changes that url.
C14_UrlNonEmpty ==
    /\ Built => call.built.url # <<>>
    /\ Requested =>
           /\ call.built.url # <<>>
           /\ call.payload.url = call.built.url
           /\ call.request_kwargs.url = call.built.url

AllSlashes(s) == \A i \in 1..Len(s) : s[i] = "/"

\* the base without its trailing slashes, found without stripping
BasePart(b) ==
    CHOOSE B \in {SubSeq(b, 1, i) : i \in 0..Len(b)} :
        /\ AllSlashes(SubSeq(b, Len(B) + 1, Len(b)))
        /\ (B = <<>> \/ B[Len(B)] # "/")

\* the endpoint without its leading slashes, found without stripping
EndpointPart(e) ==
    CHOOSE E \in {SubSeq(e, i, Len(e)) : i \in 1..(Len(e) + 1)} :
        /\ AllSlashes(SubSeq(e, 1, Len(e) - Len(E)))
        /\ (E = <<>> \/ E[1] # "/")

\* C15: from_endpoint with a base_url present (a non-empty string) yields
\* base_url without trailing slashes, one "/", and the endpoint without
\* leading slashes; with base_url absent (None or empty) it yields the
\* endpoint verbatim.
C15_UrlJoin ==
    (call.op = "from_endpoint") =>
        IF call.base # None /\ Val(call.base) # <<>>
        THEN call.built.url = BasePart(Val(call.base)) \o <<"/">> \o EndpointPart(call.endpoint)
        ELSE call.built.url = call.endpoint

C15_Witness ==
    /\ call.op = "from_endpoint"
    /\ call.base = Some(<<"h", "/", "/">>)
    /\ call.endpoint = <<"/", "/", "p">>
    /\ call.built.url = <<"h", "/", "p">>

\* C17: from_endpoint turns a single integer n into the one-element list [n],
\* keeps a list of codes unchanged and keeps an absent value absent.
C17_CodesNormalized ==
    (call.op = "from_endpoint") =>
        LET given == call.expected_status_codes
            kept == call.built.expected_status_codes
        IN  CASE Tag(given) = "int" ->
                   /\ Tag(kept) = "list"
                   /\ Len(Items(kept)) = 1
                   /\ SeqToSet(Items(kept)) = {Items(given)[1]}
              [] Tag(given) = "list" -> kept = given
              [] OTHER -> kept = NoCodes

C17_Witness ==
    /\ call.op = "from_endpoint"
    /\ call.expected_status_codes = IntCodes(200)
    /\ call.built.expected_status_codes = ListCodes(<<200>>)

(***************************************************************************)
(* Error message extraction: specification SpecMsg                         *)
(***************************************************************************)
T_gone == <<"g", "o", "n", "e">>

T_html == <<"<", "h", "1", ">">>

BodyInputs ==
    {EmptyBody,
     ErrorBody,
     Body("invalid", None, None, T_html),
     Body("dict", None, None, <<"{", "}">>),
     Body("dict", Some(T_gone), None, T_html),
     Body("dict", Some(T_gone), Some(T_bad_id), T_html),
     Body("dict", Some(<<>>), Some(T_bad_id), <<>>),
     Body("other", None, None, <<"[", "]">>)}

ErrorStatuses == {404, 500}

InitMsg ==
    /\ InitGateway
    /\ base_url = Some(U_base)
    /\ default_headers = << <<K_XA, V_1>> >>
    /\ quiet = FALSE
    /\ rate_limit_delay = 0

FailingRequest ==
    \E status \in ErrorStatuses, body \in BodyInputs, fatal \in BOOLEAN, q \in QuietInputs :
        make_request("make_request",
                     Args(E_posts, "GET", None, None, None, IntCodes(200),
                          fatal, q, None, FALSE),
                     Some(Response(status, body)), 0, 1)

NextMsg == FailingRequest

SpecMsg == InitMsg /\ [][NextMsg]_vars

Extracted == (Val(last_exception)).msg

FromStatus == Extracted.src = "http" /\ Extracted.status = Status

\* C16: the message of an unexpected status is, for a body that parses as a
\* JSON mapping, its message field, else its error field, else HTTP <status>;
\* for a body that does not parse as JSON, the raw text, or HTTP <status>
\* when the text is empty.
C16_MessageExtraction ==
    (ReceivedResponse /\ has_error) =>
        LET body == BodyOf(Val(call.transport))
        IN  /\ (BodyJson(body) = "dict" /\ BodyMessage(body) # None) =>
                   (Extracted.src = "message" /\ Extracted.text = Val(BodyMessage(body)))
            /\ (BodyJson(body) = "dict" /\ BodyMessage(body) = None /\ BodyError(body) # None) =>
                   (Extracted.src = "error" /\ Extracted.text = Val(BodyError(body)))
            /\ (BodyJson(body) = "dict" /\ BodyMessage(body) = None /\ BodyError(body) = None) =>
                   FromStatus
            /\ (BodyJson(body) = "invalid" /\ BodyText(body) # <<>>) =>
                   (Extracted.src = "text" /\ Extracted.text = BodyText(body))
            /\ (BodyJson(body) = "invalid" /\ BodyText(body) = <<>>) =>
                   FromStatus

C16_Witness ==
    /\ ReceivedResponse
    /\ has_error
    /\ BodyOf(Val(call.transport)) = Body("dict", Some(T_gone), Some(T_bad_id), T_html)
    /\ Extracted.text = T_gone

(***************************************************************************)
(* Header merge and the gateway's default headers                          *)
(***************************************************************************)
Keys(d) == {d[i][1] : i \in 1..Len(d)}

ValuesOf(d, k) == {d[i][2] : i \in {j \in 1..Len(d) : d[j][1] = k}}

CallHeaders == IF call.a.headers = None THEN <<>> ELSE Val(call.a.headers)

PayloadHeaders == Val(call.built.headers)

\* C13: the headers of the payload built by make_request hold every
\* call-time key with its call-time value, every default key not given at
\* call time (exact key match) with its default value, and no other key.
C13_HeaderMerge ==
    Requested =>
        /\ \A k \in Keys(CallHeaders) :
               ValuesOf(PayloadHeaders, k) = ValuesOf(CallHeaders, k)
        /\ \A k \in Keys(call.pre_defaults) \ Keys(CallHeaders) :
               ValuesOf(PayloadHeaders, k) = ValuesOf(call.pre_defaults, k)
        /\ Keys(PayloadHeaders) = Keys(CallHeaders) \cup Keys(call.pre_defaults)
        /\ Cardinality(Keys(PayloadHeaders)) = Len(PayloadHeaders)

C13_Witness ==
    /\ Requested
    /\ call.pre_defaults = << <<K_ct_lower, V_octet_padded>>, <<K_XA, V_1>> >>
    /\ call.a.headers = Some(<< <<K_XA, V_2>>, <<CONTENT_TYPE, MULTIPART>> >>)
    /\ ValuesOf(PayloadHeaders, K_XA) = {V_2}
    /\ ValuesOf(PayloadHeaders, K_ct_lower) = {V_octet_padded}

\* C20: no request changes default_headers, whether it carries files (which
\* remove Content-Type from the outgoing headers) or call-time headers.
C20_DefaultsKept == [][default_headers' = default_headers]_vars

C20_Witness ==
    /\ Requested
    /\ FilesTruthy(call.a.files)
    /\ call.a.headers \in {None, Some(<<>>)}
    /\ CONTENT_TYPE \in Keys(call.pre_defaults)
    /\ CONTENT_TYPE \notin Keys(SentHeaders)
    /\ default_headers = call.pre_defaults

====
